---- MODULE Spec2Model ----
(***************************************************************************)
(* Model of src/src/conf.py: the Sphinx configuration module of the        *)
(* thy-python notes.  The module star-imports a shared configuration       *)
(* (conf_global), sets three metadata strings, declares the tuple          *)
(* intersphinx_mapping_enabled and rebinds intersphinx_mapping to a dict   *)
(* comprehension that keeps the entries whose key is in that tuple.        *)
(*                                                                         *)
(* Python objects are modelled by reference: heap is the sequence of dict  *)
(* objects, a dict object is the sequence of its <<key, value>> items in   *)
(* insertion order (keys unique), a namespace is a function from the       *)
(* names bound in it to their values (a dict is named by its heap index).  *)
(***************************************************************************)
EXTENDS Integers, Sequences, FiniteSets, TLC

VARIABLES pc, globals, conf_global, heap, exc

vars == <<pc, globals, conf_global, heap, exc>>

\* ------------------------------------------------------------- bounds

\* Largest number of entries of the mapping conf_global supplies.
MaxItems == 3

\* Largest length of an allow-list drawn for the filter on its own.
MaxEnabled == 3

\* ------------------------------------------------------------- inputs

\* Reference-targets: opaque values (a URL-and-inventory pair in Sphinx).
Targets == {"t1", "t2"}

\* Identifiers conf_global may use as keys when conf.py is loaded: the six
\* conf.py names and one it does not name.
LoadKeys == {"thy_main", "py3", "pydevguide", "python_guide_org", "rtfd",
             "sphinx", "numpy"}

\* Identifiers of the filter taken on its own (mapping keys and allow-list
\* entries are drawn from the same set, so either may miss the other's).
FilterKeys == {"py3", "sphinx", "numpy", "django"}

\* Sequences over S of length at most n.
SeqUpTo(S, n) == UNION {[1..m -> S] : m \in 0..n}

\* Python dicts with keys in K: item sequences whose keys are unique.
Dicts(K) ==
    {d \in SeqUpTo(K \X Targets, MaxItems) :
        \A i, j \in DOMAIN d : d[i][1] = d[j][1] => i = j}

\* Python tuples of identifiers (duplicates allowed).
Tuples(K) == SeqUpTo(K, MaxEnabled)

\* ------------------------------------------------- Python primitives

\* Namespace assignment: name = val.
Bind(g, name, val) ==
    [n \in DOMAIN g \cup {name} |-> IF n = name THEN val ELSE g[n]]

\* from mod import *: every (public) name of mod is bound to mod's object.
ImportStar(g, mod) ==
    [n \in DOMAIN g \cup DOMAIN mod |-> IF n \in DOMAIN mod THEN mod[n] ELSE g[n]]

\* The namespace with no name bound.
EmptyNamespace == [n \in {} |-> 0]

\* d.items(): the items of d in insertion order.
DictItems(d) == d

\* d[k] = v on a dict under construction: overwrite in place, else append.
DictSetItem(d, k, v) ==
    IF \E i \in DOMAIN d : d[i][1] = k
    THEN [i \in DOMAIN d |-> IF d[i][1] = k THEN <<k, v>> ELSE d[i]]
    ELSE Append(d, <<k, v>>)

\* x in t for a tuple t: some element equals x.
TupleContains(t, x) == \E i \in 1..Len(t) : t[i] = x

\* ------------------------------------------- line 23, the comprehension

\* Variants of the condition, each a slip the claims must tell from it.
\* The scan stops one element short of the end of the tuple.
KeepExceptLast(k, enabled) ==
    \E i \in 1..(Len(enabled) - 1) : enabled[i] = k

\* The condition is left out.
KeepAlways(k, enabled) == TRUE

\* Only the first element of the tuple is compared.
KeepIfFirst(k, enabled) == enabled # <<>> /\ enabled[1] = k

\* An empty tuple is taken to allow every key.
KeepIfEmptyOrMember(k, enabled) ==
    enabled = <<>> \/ TupleContains(enabled, k)

\* enabled.count(k) == 1 in place of membership.
KeepIfListedOnce(k, enabled) ==
    Cardinality({i \in 1..Len(enabled) : enabled[i] = k}) = 1

\* The condition: if k in intersphinx_mapping_enabled.
Keep(k, enabled) == TupleContains(enabled, k)

\* v: k in place of k: v.
EmitSwapped(acc, k, v) == DictSetItem(acc, v, k)

\* The element: k: v.
Emit(acc, k, v) == DictSetItem(acc, k, v)

\* The loop of the comprehension: one pass over the items, in order.
RECURSIVE CompLoop(_, _, _)
CompLoop(items, enabled, acc) ==
    IF items = <<>> THEN acc
    ELSE LET k == Head(items)[1]
             v == Head(items)[2]
         IN CompLoop(Tail(items), enabled,
                     IF Keep(k, enabled) THEN Emit(acc, k, v) ELSE acc)

\* {k: M[k] for k in enabled}: a subscript of an absent key raises.
CompBySubscript(items, enabled) ==
    IF \E i \in 1..Len(enabled) : \A j \in DOMAIN items : items[j][1] # enabled[i]
    THEN [exc |-> "KeyError", val |-> <<>>]
    ELSE [exc |-> "none", val |-> CompLoop(items, enabled, <<>>)]

\* {k: v for k, v in items if k in enabled}: iteration, membership and
\* insertion raise nothing.
DictComp(items, enabled) ==
    [exc |-> "none", val |-> CompLoop(items, enabled, <<>>)]

\* del of the rejected keys in the source dict itself; the name keeps
\* naming the source object.
FilterInPlace(h, src, d) == [heap |-> [h EXCEPT ![src] = d], ref |-> src]

\* The new dict is built but the name keeps naming the source object.
BuildDictUnbound(h, src, d) == [heap |-> Append(h, d), ref |-> src]

\* The dict display builds a new dict object; src is left as it was.
BuildDict(h, src, d) == [heap |-> Append(h, d), ref |-> Len(h) + 1]

\* Evaluation of the right-hand side of line 23 in namespace g, heap h.
\* The iterable is looked up once; the allow-list is looked up once per
\* item, so it is not looked up at all when there are no items.
EvalLine23(g, h) ==
    IF "intersphinx_mapping" \notin DOMAIN g
    THEN [exc |-> "NameError", heap |-> h, ref |-> 0]
    ELSE LET src == g["intersphinx_mapping"]
             items == DictItems(h[src])
         IN IF items # <<>> /\ "intersphinx_mapping_enabled" \notin DOMAIN g
            THEN [exc |-> "NameError", heap |-> h, ref |-> 0]
            ELSE LET enabled == IF items = <<>> THEN <<>>
                                ELSE g["intersphinx_mapping_enabled"]
                     c == DictComp(items, enabled)
                     b == BuildDict(h, src, c.val)
                 IN IF c.exc # "none"
                    THEN [exc |-> c.exc, heap |-> h, ref |-> 0]
                    ELSE [exc |-> "none", heap |-> b.heap, ref |-> b.ref]

\* The effect of line 23 as a statement; the program goes on at `to`.
Line23(to) ==
    /\ LET r == EvalLine23(globals, heap)
       IN /\ exc' = r.exc
          /\ heap' = r.heap
          /\ globals' = IF r.exc = "none"
                        THEN Bind(globals, "intersphinx_mapping", r.ref)
                        ELSE globals
          /\ pc' = IF r.exc = "none" THEN to ELSE "raised"
    /\ UNCHANGED conf_global

\* ------------------------------------------------- conf.py, line by line

\* The tuple with the thy_main line commented out.
intersphinx_mapping_enabled_without_thy_main ==
    <<"py3", "pydevguide", "python_guide_org", "rtfd", "sphinx">>

\* The tuple of lines 14-22.
intersphinx_mapping_enabled ==
    <<"thy_main", "py3", "pydevguide", "python_guide_org", "rtfd", "sphinx">>

\* conf_global holds the Source Mapping as heap object 1.
Init ==
    /\ pc = "import"
    /\ globals = EmptyNamespace
    /\ conf_global = [intersphinx_mapping |-> 1]
    /\ \E M \in Dicts(LoadKeys) : heap = <<M>>
    /\ exc = "none"

\* Line 8: from conf_global import *
ImportConfGlobal ==
    /\ pc = "import"
    /\ globals' = ImportStar(globals, conf_global)
    /\ pc' = "project"
    /\ UNCHANGED <<conf_global, heap, exc>>

\* Line 10
SetProject ==
    /\ pc = "project"
    /\ globals' = Bind(globals, "project", "Thy's Notes")
    /\ pc' = "project_copyright"
    /\ UNCHANGED <<conf_global, heap, exc>>

\* Line 11
SetProjectCopyright ==
    /\ pc = "project_copyright"
    /\ globals' = Bind(globals, "project_copyright", "2021, Thierry Humphrey")
    /\ pc' = "author"
    /\ UNCHANGED <<conf_global, heap, exc>>

\* Line 12
SetAuthor ==
    /\ pc = "author"
    /\ globals' = Bind(globals, "author", "Thierry Humphrey")
    /\ pc' = "enabled"
    /\ UNCHANGED <<conf_global, heap, exc>>

\* Lines 14-22
SetEnabled ==
    /\ pc = "enabled"
    /\ globals' = Bind(globals, "intersphinx_mapping_enabled", intersphinx_mapping_enabled)
    /\ pc' = "filter"
    /\ UNCHANGED <<conf_global, heap, exc>>

\* Line 23, the last statement of the module.
FilterMapping ==
    /\ pc = "filter"
    /\ Line23("done")

Next ==
    \/ ImportConfGlobal
    \/ SetProject
    \/ SetProjectCopyright
    \/ SetAuthor
    \/ SetEnabled
    \/ FilterMapping

Spec == Init /\ [][Next]_vars

\* ------------------------------------- the filter on arbitrary inputs

\* The state before line 23 with any mapping M and any allow-list A.
InitFilter ==
    /\ pc = "filter"
    /\ conf_global = [intersphinx_mapping |-> 1]
    /\ \E M \in Dicts(FilterKeys) : heap = <<M>>
    /\ \E A \in Tuples(FilterKeys) :
         globals = Bind(ImportStar(EmptyNamespace, conf_global),
                        "intersphinx_mapping_enabled", A)
    /\ exc = "none"

\* Line 23 executed a second time, on its own result.
FilterAgain ==
    /\ pc = "done"
    /\ Line23("again")

NextFilter ==
    \/ FilterMapping
    \/ FilterAgain

SpecFilter == InitFilter /\ [][NextFilter]_vars

\* ------------------------------------------------ reading the state

Range(s) == {s[i] : i \in DOMAIN s}

\* The keys and the entries of a dict object.
Keys(d) == {d[i][1] : i \in DOMAIN d}
Entries(d) == {d[i] : i \in DOMAIN d}
Lookup(d, k) == d[CHOOSE i \in DOMAIN d : d[i][1] = k][2]
UniqueKeys(d) == \A i, j \in DOMAIN d : d[i][1] = d[j][1] => i = j

\* The Source Mapping M: the object conf_global names.
Source == heap[conf_global["intersphinx_mapping"]]

\* The Allow-list A, once bound.
Enabled == globals["intersphinx_mapping_enabled"]

\* The object the name intersphinx_mapping is bound to (0: unbound).
BoundRef ==
    IF "intersphinx_mapping" \in DOMAIN globals
    THEN globals["intersphinx_mapping"] ELSE 0

\* The Filtered Mapping F: what intersphinx_mapping names after line 23.
Filtered == heap[BoundRef]

\* Line 23 has run once and raised nothing.
FilterDone == pc = "done"

\* F = { (k, v) \in M : k \in A }, the contract of the Mapping Filter.
ContractFilter(M, A) == {kv \in Entries(M) : kv[1] \in Range(A)}

\* The rearrangements of a tuple.
PermutationsOf(A) ==
    {[i \in 1..Len(A) |-> A[p[i]]] : p \in Permutations(1..Len(A))}

\* A with every repeated identifier removed (first occurrences kept).
RECURSIVE Dedup(_)
Dedup(A) ==
    IF A = <<>> THEN <<>>
    ELSE LET r == Dedup(SubSeq(A, 1, Len(A) - 1))
             x == A[Len(A)]
         IN IF x \in Range(r) THEN r ELSE Append(r, x)

Min(a, b) == IF a <= b THEN a ELSE b

\* ------------------------------------------------------------ claims

\* C1 (soundness): after the filter every key of the Filtered Mapping is a
\* key of the Source Mapping and a member of the Allow-list.
C1_Soundness ==
    FilterDone => Keys(Filtered) \subseteq (Keys(Source) \cap Range(Enabled))

\* C1 witness: the filter ran on a mapping with a key outside the
\* allow-list and an allow-list with an identifier outside the mapping,
\* and kept something.
C1_Witness ==
    /\ FilterDone
    /\ Keys(Source) \ Range(Enabled) # {}
    /\ Range(Enabled) \ Keys(Source) # {}
    /\ Filtered # <<>>

\* C2 (completeness, value preservation): after the filter every key in
\* both the Source Mapping and the Allow-list is a key of the Filtered
\* Mapping with the value the Source Mapping gives it, and the Filtered
\* Mapping is exactly { (k, v) in M : k in A }.
C2_Completeness ==
    FilterDone =>
        /\ \A k \in Keys(Source) \cap Range(Enabled) :
              k \in Keys(Filtered) /\ Lookup(Filtered, k) = Lookup(Source, k)
        /\ Entries(Filtered) = ContractFilter(Source, Enabled)

\* C2 witness: two allow-listed entries with different values were kept
\* and a third entry was dropped.
C2_Witness ==
    /\ FilterDone
    /\ Len(Filtered) = 2
    /\ Filtered[1][2] # Filtered[2][2]
    /\ Len(Source) = 3

\* C3 (frame): the filter step binds intersphinx_mapping to an object other
\* than the Source Mapping; no step changes the entries of the Source
\* Mapping object, and no step changes the Allow-list once it is bound.
C3_SourceNotMutated ==
    [][/\ conf_global' = conf_global
       /\ pc' \in {"done", "again"} =>
            globals'["intersphinx_mapping"] # conf_global["intersphinx_mapping"]
       /\ heap'[conf_global["intersphinx_mapping"]] = Source
       /\ "intersphinx_mapping_enabled" \in DOMAIN globals =>
            /\ "intersphinx_mapping_enabled" \in DOMAIN globals'
            /\ globals'["intersphinx_mapping_enabled"] = Enabled]_vars

\* C3 witness: the filter produced a mapping smaller than the Source
\* Mapping, which still holds an entry that is not allow-listed.
C3_Witness ==
    /\ FilterDone
    /\ Keys(Source) \ Range(Enabled) # {}
    /\ BoundRef # conf_global["intersphinx_mapping"]
    /\ Len(Filtered) < Len(Source)

\* C4 (no error outcome): no exception is ever raised, and after the
\* filter intersphinx_mapping names a mapping that holds none of the
\* allow-listed identifiers absent from the Source Mapping.
C4_NoError ==
    /\ exc = "none"
    /\ pc # "raised"
    /\ FilterDone =>
          /\ BoundRef \in 1..Len(heap)
          /\ UniqueKeys(Filtered)
          /\ (Range(Enabled) \ Keys(Source)) \cap Keys(Filtered) = {}

\* C4 witness: the filter completed with an allow-listed identifier that
\* is no key of the Source Mapping.
C4_Witness ==
    /\ FilterDone
    /\ exc = "none"
    /\ Range(Enabled) \ Keys(Source) # {}
    /\ Source # <<>>

\* C5 (idempotence): line 23 run again on its own result, with the same
\* allow-list, yields a mapping with the same keys and the same values.
C5_Idempotent ==
    pc = "again" =>
        /\ Entries(Filtered) = Entries(heap[2])
        /\ Len(Filtered) = Len(heap[2])

\* C5 witness: the second run happened on a non-empty first result that
\* had dropped an entry.
C5_Witness ==
    /\ pc = "again"
    /\ BoundRef = 3
    /\ heap[2] # <<>>
    /\ Len(heap[2]) < Len(Source)

\* C6 (order-independence): the entries of the Filtered Mapping are those
\* the comprehension yields for every rearrangement of the Allow-list.
C6_OrderIndependent ==
    FilterDone =>
        \A A2 \in PermutationsOf(Enabled) :
            Entries(DictComp(DictItems(Source), A2).val) = Entries(Filtered)

\* C6 witness: the allow-list has at least two different identifiers, one
\* kept and one not first in the list.
C6_Witness ==
    /\ FilterDone
    /\ Cardinality(Range(Enabled)) >= 2
    /\ \E i \in 2..Len(Enabled) :
          Enabled[i] \in Keys(Filtered) /\ Enabled[i] # Enabled[1]

\* C7 (empty-input laws): filtering the empty Source Mapping yields the
\* empty mapping, and filtering with the empty Allow-list yields the
\* empty mapping.
C7_EmptyLaws ==
    FilterDone =>
        /\ Source = <<>> => Filtered = <<>>
        /\ Enabled = <<>> => Filtered = <<>>

\* C7 witness: the filter ran with the empty allow-list on a non-empty
\* mapping.
C7_Witness ==
    /\ FilterDone
    /\ Enabled = <<>>
    /\ Source # <<>>
    /\ Filtered = <<>>

\* C8 (created once, never changed): the step at line 23 binds
\* intersphinx_mapping to one new dict object holding the filter's result;
\* every other step leaves the binding and every dict object as they
\* were, and line 23 is entered only from the line before it.
C8_CreatedOnce ==
    [][/\ pc = "filter" =>
            /\ Len(heap') = Len(heap) + 1
            /\ globals'["intersphinx_mapping"] = Len(heap')
            /\ Entries(heap'[Len(heap')]) = ContractFilter(Source, Enabled)
            /\ pc' = "done"
       /\ pc # "filter" =>
            /\ heap' = heap
            /\ BoundRef # 0 =>
                 /\ "intersphinx_mapping" \in DOMAIN globals'
                 /\ globals'["intersphinx_mapping"] = BoundRef
       /\ \A o \in 1..Len(heap) : heap'[o] = heap[o]
       /\ pc' = "filter" => pc \in {"enabled", "filter"}]_vars

\* C8 witness: the load finished with intersphinx_mapping naming the one
\* dict conf.py created, which differs from the Source Mapping.
C8_Witness ==
    /\ FilterDone
    /\ Len(heap) = 2
    /\ BoundRef = 2
    /\ Filtered # Source
    /\ Filtered # <<>>

\* C9 (duplicates): the result is the one the comprehension yields for the
\* Allow-list with duplicates removed, no key appears twice in it, and it
\* has at most as many entries as the Source Mapping has keys and as the
\* Allow-list has distinct identifiers.
C9_SetOfIdentifiers ==
    FilterDone =>
        /\ Filtered = DictComp(DictItems(Source), Dedup(Enabled)).val
        /\ UniqueKeys(Filtered)
        /\ Len(Filtered) <=
              Min(Cardinality(Keys(Source)), Cardinality(Range(Enabled)))

\* C9 witness: the allow-list names a key of the Source Mapping twice.
C9_Witness ==
    /\ FilterDone
    /\ \E i, j \in DOMAIN Enabled :
          i # j /\ Enabled[i] = Enabled[j] /\ Enabled[i] \in Keys(Source)
    /\ Filtered # <<>>

\* C10 (the declared allow-list): after the load the keys of
\* intersphinx_mapping are among thy_main, py3, pydevguide,
\* python_guide_org, rtfd and sphinx; thy_main is in the allow-list, and a
\* thy_main entry of the Source Mapping is kept with its value.
C10_DeclaredAllowList ==
    FilterDone =>
        /\ Keys(Filtered) \subseteq {"thy_main", "py3", "pydevguide",
                                     "python_guide_org", "rtfd", "sphinx"}
        /\ TupleContains(Enabled, "thy_main")
        /\ "thy_main" \in Keys(Source) =>
              /\ "thy_main" \in Keys(Filtered)
              /\ Lookup(Filtered, "thy_main") = Lookup(Source, "thy_main")

\* C10 witness: the Source Mapping had a thy_main entry and an entry the
\* allow-list does not name.
C10_Witness ==
    /\ FilterDone
    /\ "thy_main" \in Keys(Source)
    /\ "numpy" \in Keys(Source)
    /\ "thy_main" \in Keys(Filtered)

====
